---- MODULE Spec2Model ----
(***************************************************************************)
(* A model of the NHL MCP server: the API client (nhl_api.py), the text    *)
(* formatters, the analytics helpers and the tool dispatcher (server.py).  *)
(*                                                                         *)
(* Python strings are TLA+ strings (concatenation \o, Len, SubSeq), so the *)
(* texts the tools return are the texts of the program.  Optional[str]     *)
(* arguments are only ever tested for truthiness by the code ("x or ...",  *)
(* "if not x"), so None is represented by the empty string.                *)
(***************************************************************************)
EXTENDS Integers, Sequences, FiniteSets, TLC

VARIABLES
    pc,         \* position of call_tool: "idle", "await" (suspended in client.get), "done"
    name,       \* the tool name of the invocation
    arguments,  \* its argument object (a function from keys to values)
    requests,   \* the URLs this invocation has sent with client.get, in order
    responses,  \* the upstream outcomes it has received, in order
    results,    \* the list "results" of compare_seasons
    ret,        \* the list of TextContent returned by call_tool
    raised,     \* the exception that left call_tool ("" when none did)
    now,        \* the reading of the local clock given to _get_current_season
    current_season, \* what _get_current_season returned ("" before it has)
    process,    \* position of the process: "start", "loaded", "serving", "exited"
    http,       \* the httpx.AsyncClient of the module-level client
    tasks,      \* the frames of the concurrent invocations of call_tool
    wire        \* the GETs sent on the shared client, with their outcomes

\* the variables of one invocation of call_tool
callVars == <<pc, name, arguments, requests, responses, results, ret, raised>>
\* the variables of the current-season rule
seasonVars == <<now, current_season>>
\* the variables of the process and its concurrent invocations
serverVars == <<process, http, tasks, wire>>

vars == <<callVars, seasonVars, serverVars>>

-----------------------------------------------------------------------------
(* Bounds of the model *)

\* longest schedule enumerated game by game
MaxGames == 2
\* longest season enumerated by its results alone
MaxSeason == 11
\* teams in the league table the standings are drawn from
MaxTeams == 3
\* longest list of seasons given to compare_seasons
MaxSeasons == 2
\* years of clock readings, from 1998 on
MaxYears == 4
\* invocations of call_tool in progress at the same time
MaxTasks == 2

(* Program constants *)

\* the loop of analyze_streak stops once this many results are recorded
RecentCap == 10
\* default "limit" of get_player_stats and get_goalie_stats
DefaultLimit == 20

NHL_API_BASE == "https://api-web.nhle.com/v1"

-----------------------------------------------------------------------------
(* Python built-ins *)

NoRecord == [k \in {} |-> ""]

\* d.get(k, default)
Get(d, k, default) == IF k \in DOMAIN d THEN d[k] ELSE default

\* str(int)
Str(n) == ToString(n)

RECURSIVE Ljust(_, _)
\* s.ljust(w)
Ljust(s, w) == IF Len(s) >= w THEN s ELSE Ljust(s \o " ", w)

RECURSIVE Rjust(_, _)
\* s.rjust(w)
Rjust(s, w) == IF Len(s) >= w THEN s ELSE Rjust(" " \o s, w)

RECURSIVE Repeat(_, _)
\* s * n
Repeat(s, n) == IF n <= 0 THEN "" ELSE s \o Repeat(s, n - 1)

RECURSIVE Join(_, _)
\* sep.join(items)
Join(sep, items) ==
    IF items = <<>> THEN ""
    ELSE IF Len(items) = 1 THEN items[1]
    ELSE items[1] \o sep \o Join(sep, Tail(items))

\* the characters of the strings the model compares, in code point order
Alphabet == "-0123456789ABCDEFGHIJKLMNOPQRSTUVWXYZ"

CharRank(c) == CHOOSE i \in 1..Len(Alphabet) : SubSeq(Alphabet, i, i) = c

RECURSIVE StrLess(_, _)
\* a < b on str: lexicographic by code point
StrLess(a, b) ==
    IF b = "" THEN FALSE
    ELSE IF a = "" THEN TRUE
    ELSE LET ca == SubSeq(a, 1, 1)
             cb == SubSeq(b, 1, 1)
         IN IF ca = cb THEN StrLess(SubSeq(a, 2, Len(a)), SubSeq(b, 2, Len(b)))
            ELSE CharRank(ca) < CharRank(cb)

\* s.lower() and s.upper(), on the strings the tools are given
Lower(s) ==
    CASE s = "A" -> "a" [] s = "M" -> "m" [] s = "E" -> "e" [] s = "W" -> "w"
      [] OTHER -> s

Upper(s) ==
    CASE s = "points" -> "POINTS" [] s = "goals" -> "GOALS"
      [] s = "savePctg" -> "SAVEPCTG" [] OTHER -> s

\* two decimal digits of n
Pad2(n) == (IF n < 10 THEN "0" ELSE "") \o Str(n)

\* f"{g / n:.2f}" for integers g >= 0, n > 0: the nearest hundredth, an exact
\* tie going to the even one.  A tie needs n >= 8, and for n < 40 every tie is
\* a multiple of 1/8, which a float holds exactly, so the float division
\* rounds as the exact quotient does.
Fixed2Div(g, n) ==
    LET q == (100 * g) \div n
        r == (100 * g) % n
        h == IF 2 * r < n THEN q
             ELSE IF 2 * r > n THEN q + 1
             ELSE IF q % 2 = 0 THEN q ELSE q + 1
    IN Str(h \div 100) \o "." \o Pad2(h % 100)

\* json.dumps(data, indent=2) on the bodies the pass-through tools are given
JsonDumps(data) ==
    IF DOMAIN data = {} THEN "{}"
    ELSE "{\n  \"id\": " \o Str(data.id) \o "\n}"

-----------------------------------------------------------------------------
(* Control flow of a coroutine up to its next suspension *)

Return(v) == [kind |-> "return", value |-> v]
Raise(e) == [kind |-> "raise", exc |-> e]
Await(u) == [kind |-> "await", url |-> u]

\* str(KeyError(k))
KeyError(k) == "'" \o k \o "'"

-----------------------------------------------------------------------------
(* The upstream API: what a GET can give back *)

\* client.get raised (timeout, connection failure): str(e)
TransportErrors == {"", "All connection attempts failed"}

\* HTTP status codes the upstream answers with
StatusCodes == {200, 404, 500}

Failed(e) == [kind |-> "error", exc |-> e]
Answer(status, body) == [kind |-> "response", status |-> status, body |-> body]

SeqsUpTo(S, n) == UNION {[1..k -> S] : k \in 0..n}

Dates == {"2024-10-05", "2024-10-12"}
\* <<home, away>>
Pairings == {<<"TOR", "MTL">>, <<"MTL", "TOR">>, <<"TOR", "BOS">>}
\* <<home score, away score>>
Scores == {<<3, 2>>, <<1, 4>>, <<2, 2>>}

Played(d, p, st, sc) ==
    [gameDate |-> d, gameState |-> st,
     homeTeam |-> [abbrev |-> p[1], score |-> sc[1]],
     awayTeam |-> [abbrev |-> p[2], score |-> sc[2]]]

\* a game not yet played carries no scores
Future(d, p) ==
    [gameDate |-> d, gameState |-> "FUT",
     homeTeam |-> [abbrev |-> p[1]], awayTeam |-> [abbrev |-> p[2]]]

Games ==
    {Played(d, p, "OFF", sc) : d \in Dates, p \in Pairings, sc \in Scores}
    \cup {Played(d, p, "FINAL", <<3, 2>>) : d \in Dates, p \in Pairings}
    \cup {Played(d, p, "LIVE", <<1, 0>>) : d \in Dates, p \in Pairings}
    \cup {Future(d, p) : d \in Dates, p \in Pairings}

\* the i-th game of a season of TOR, as the API lists it (ascending dates),
\* with result o ("W" or "L") for TOR
SeasonGame(i, o) ==
    LET home == (i % 2 = 1)
        tor == IF o = "W" THEN 3 ELSE 1
        opp == IF o = "W" THEN 2 ELSE 4
    IN Played("2024-11-" \o Pad2(i),
              IF home THEN <<"TOR", "MTL">> ELSE <<"BOS", "TOR">>,
              IF i % 3 = 0 THEN "FINAL" ELSE "OFF",
              IF home THEN <<tor, opp>> ELSE <<opp, tor>>)

Seasons ==
    {[i \in DOMAIN o |-> SeasonGame(i, o[i])] :
        o \in UNION {[1..n -> {"W", "L"}] : n \in (MaxGames + 1)..MaxSeason}}

\* bodies of club-schedule-season
ScheduleBodies ==
    {NoRecord} \cup {[games |-> s] : s \in SeqsUpTo(Games, MaxGames) \cup Seasons}

TeamTOR ==
    [teamAbbrev |-> [default |-> "TOR"], gamesPlayed |-> 8, wins |-> 5, losses |-> 2,
     otLosses |-> 1, points |-> 11, goalFor |-> 25, goalAgainst |-> 20,
     goalDifferential |-> 5, divisionAbbrev |-> "A", conferenceAbbrev |-> "E"]

\* same letters in lower case, nothing played yet
TeamLower ==
    [teamAbbrev |-> [default |-> "tor"], gamesPlayed |-> 0, wins |-> 0, losses |-> 0,
     otLosses |-> 0, points |-> 0, goalFor |-> 0, goalAgainst |-> 0,
     goalDifferential |-> 0, divisionAbbrev |-> "M", conferenceAbbrev |-> "E"]

\* a partial record
TeamPartial == [teamAbbrev |-> [default |-> "MTL"], goalFor |-> 3, conferenceAbbrev |-> "W"]

\* the i-th record of the league table
TeamAt(i) ==
    CASE i = 1 -> TeamTOR
      [] i = 2 -> TeamPartial
      [] i = 3 -> TeamLower
      [] OTHER -> [teamAbbrev |-> [default |-> "T" \o Str(i)], gamesPlayed |-> i,
                   goalFor |-> 2 * i, divisionAbbrev |-> "a", conferenceAbbrev |-> "w"]

\* the records of the league table at the places in P, in table order
RECURSIVE TableRows(_, _)
TableRows(P, i) ==
    IF i > MaxTeams THEN <<>>
    ELSE (IF i \in P THEN <<TeamAt(i)>> ELSE <<>>) \o TableRows(P, i + 1)

\* bodies of standings: any part of the league table, or no table at all
StandingsBodies ==
    {NoRecord} \cup {[standings |-> TableRows(P, 1)] : P \in SUBSET (1..MaxTeams)}

LiveGame ==
    [id |-> 2024020001, gameDate |-> "2024-10-05", gameState |-> "LIVE", period |-> 2,
     venue |-> "Scotiabank Arena",
     homeTeam |-> [abbrev |-> "TOR", score |-> 1], awayTeam |-> [abbrev |-> "MTL", score |-> 0]]

\* bodies of score
ScoreBodies ==
    {NoRecord, [games |-> <<>>], [games |-> <<LiveGame>>],
     [games |-> <<LiveGame, Future("2024-10-12", <<"TOR", "BOS">>)>>],
     [games |-> <<Played("2024-10-05", <<"MTL", "TOR">>, "OFF", <<1, 4>>),
                  Played("2024-10-05", <<"TOR", "BOS">>, "PRE", <<0, 0>>)>>]}

Skater ==
    [firstName |-> [default |-> "Auston"], lastName |-> [default |-> "Matthews"],
     teamAbbrev |-> "TOR", position |-> "C", value |-> 69]

\* a goalie's value is a save percentage, held here in thousandths
Goalie ==
    [firstName |-> [default |-> "Connor"], lastName |-> [default |-> "Hellebuyck of Winnipeg"],
     teamAbbrev |-> "WPG", value |-> 925]

\* bodies of skater-stats-leaders and goalie-stats-leaders for a category
LeaderBodies(category, player) ==
    {NoRecord, [k \in {category} |-> <<>>], [k \in {category} |-> <<player, NoRecord>>]}

\* bodies the pass-through tools print as JSON
JsonBodies == {NoRecord, [id |-> 2024020001]}

-----------------------------------------------------------------------------
(* nhl_api.py: NHLAPIClient *)

\* datetime.now().date().isoformat()
IsoDate(t) == Str(t.year) \o "-" \o Pad2(t.month) \o "-" \o Pad2(t.day)

\* the season starts a month late: October still belongs to the old season
get_current_season_late(t) ==
    IF t.month > 10
    THEN Str(t.year) \o Str(t.year + 1)
    ELSE Str(t.year - 1) \o Str(t.year)

get_current_season(t) ==
    IF t.month >= 10
    THEN Str(t.year) \o Str(t.year + 1)
    ELSE Str(t.year - 1) \o Str(t.year)

format_season(season) ==
    IF Len(season) = 8
    THEN SubSeq(season, 1, 4) \o "-" \o SubSeq(season, 5, 8)
    ELSE season

\* "x or default" on an Optional[str]
Or(x, default) == IF x = "" THEN default ELSE x

\* the words of an HTTPStatusError for a status code (the first line of its message)
ErrorType(status) == IF status \div 100 = 4 THEN "Client error" ELSE "Server error"
ReasonPhrase(status) == IF status = 404 THEN "Not Found" ELSE "Internal Server Error"

\* the client catches its own failure and hands back an empty body
fetch_json_swallowed(url, o) ==
    IF o.kind = "error" \/ o.status \div 100 # 2 THEN Return(NoRecord) ELSE Return(o.body)

\* _fetch_json after client.get has come back with outcome o: the parsed body,
\* or the exception of client.get or of raise_for_status (any status but 2xx)
fetch_json(url, o) ==
    IF o.kind = "error" THEN Raise(o.exc)
    ELSE IF o.status \div 100 # 2
    THEN Raise(ErrorType(o.status) \o " '" \o Str(o.status) \o " "
               \o ReasonPhrase(o.status) \o "' for url '" \o url \o "'")
    ELSE Return(o.body)

\* the URL each client method gets
url_todays_scores(date, t) == NHL_API_BASE \o "/score/" \o Or(date, IsoDate(t))
url_game_details(game_id) == NHL_API_BASE \o "/gamecenter/" \o Str(game_id) \o "/play-by-play"
url_standings(date, t) == NHL_API_BASE \o "/standings/" \o Or(date, IsoDate(t))
url_standings_by_season(season) == NHL_API_BASE \o "/standings/" \o season
url_team_schedule(team_abbrev, season, t) ==
    NHL_API_BASE \o "/club-schedule-season/" \o team_abbrev \o "/"
    \o Or(season, get_current_season(t))
url_schedule(date, t) == NHL_API_BASE \o "/schedule/" \o Or(date, IsoDate(t))
url_top_skaters(category, limit, season) ==
    IF season = ""
    THEN NHL_API_BASE \o "/skater-stats-leaders/current?categories=" \o category
         \o "&limit=" \o Str(limit)
    ELSE NHL_API_BASE \o "/skater-stats-leaders/" \o season \o "/2?categories=" \o category
         \o "&limit=" \o Str(limit)
url_top_goalies(limit, season) ==
    IF season = ""
    THEN NHL_API_BASE \o "/goalie-stats-leaders/current?categories=savePctg&limit="
         \o Str(limit)
    ELSE NHL_API_BASE \o "/goalie-stats-leaders/" \o season
         \o "/2?categories=savePctg&limit=" \o Str(limit)
url_playoff_bracket(season, t) == NHL_API_BASE \o "/playoff-bracket/" \o Or(season, Str(t.year))
url_team_stats(team_abbrev, season, t) ==
    NHL_API_BASE \o "/club-stats/" \o team_abbrev \o "/" \o Or(season, get_current_season(t))
    \o "/2"

-----------------------------------------------------------------------------
(* server.py: formatters *)

\* f"{x}" of an optional integer field whose default is ''
StrOrEmpty(d, k) == IF k \in DOMAIN d THEN Str(d[k]) ELSE ""

format_game_score(game) ==
    LET game_state == Get(game, "gameState", "")
        period == Get(game, "period", 0)
        status == IF game_state \in {"LIVE", "CRIT"} THEN "LIVE - Period " \o Str(period)
                  ELSE IF game_state = "FUT" THEN "Scheduled"
                  ELSE IF game_state \in {"FINAL", "OFF"} THEN "Final"
                  ELSE game_state
        away_team == Get(game, "awayTeam", NoRecord)
        home_team == Get(game, "homeTeam", NoRecord)
    IN Get(away_team, "abbrev", "") \o " " \o Str(Get(away_team, "score", 0)) \o " @ "
       \o Get(home_team, "abbrev", "") \o " " \o Str(Get(home_team, "score", 0))
       \o " - " \o status \o "\n"
       \o "Venue: " \o Get(game, "venue", "") \o "\n"
       \o "Date: " \o Get(game, "gameDate", "") \o "\n"
       \o "Game ID: " \o StrOrEmpty(game, "id")

format_standings_row(team) ==
    LET team_name == Ljust(Get(Get(team, "teamAbbrev", NoRecord), "default", ""), 4)
        gp == Rjust(Str(Get(team, "gamesPlayed", 0)), 3)
        w == Rjust(Str(Get(team, "wins", 0)), 2)
        l == Rjust(Str(Get(team, "losses", 0)), 2)
        ot == Rjust(Str(Get(team, "otLosses", 0)), 2)
        pts == Rjust(Str(Get(team, "points", 0)), 3)
        gf == Rjust(Str(Get(team, "goalFor", 0)), 3)
        ga == Rjust(Str(Get(team, "goalAgainst", 0)), 3)
        diff == Rjust(Str(Get(team, "goalDifferential", 0)), 4)
        div == Get(team, "divisionAbbrev", "")
    IN team_name \o " | " \o gp \o " | " \o w \o " | " \o l \o " | " \o ot \o " | " \o pts
       \o " | " \o gf \o " | " \o ga \o " | " \o diff \o " | " \o div \o "\n"

format_standings(standings) ==
    "Team | GP | W | L | OT | PTS | GF | GA | DIFF | Div\n"
    \o Repeat("-", 70) \o "\n"
    \o Join("", [i \in 1..Len(standings) |-> format_standings_row(standings[i])])

\* name[:25].ljust(25)
DisplayName(player) ==
    LET first_name == Get(Get(player, "firstName", NoRecord), "default", "")
        last_name == Get(Get(player, "lastName", NoRecord), "default", "")
        full == first_name \o " " \o last_name
    IN Ljust(SubSeq(full, 1, IF Len(full) < 25 THEN Len(full) ELSE 25), 25)

format_player_stats(players, category) ==
    "Rank | Player | Team | Pos | " \o Upper(category) \o "\n"
    \o Repeat("-", 60) \o "\n"
    \o Join("", [i \in 1..Len(players) |->
                    Rjust(Str(i), 3) \o " | " \o DisplayName(players[i]) \o " | "
                    \o Ljust(Get(players[i], "teamAbbrev", ""), 4) \o " | "
                    \o Ljust(Get(players[i], "position", ""), 2) \o " | "
                    \o Rjust(Str(Get(players[i], "value", 0)), 4) \o "\n"])

\* f"{value:.3f}" of a value held in thousandths
Fixed3(v) ==
    Str(v \div 1000) \o "."
    \o (IF v % 1000 < 100 THEN "0" ELSE "") \o Pad2(v % 1000)

format_goalie_stats(goalies, category) ==
    "Rank | Goalie | Team | " \o Upper(category) \o "\n"
    \o Repeat("-", 60) \o "\n"
    \o Join("", [i \in 1..Len(goalies) |->
                    Rjust(Str(i), 3) \o " | " \o DisplayName(goalies[i]) \o " | "
                    \o Ljust(Get(goalies[i], "teamAbbrev", ""), 4) \o " | "
                    \o (IF category = "savePctg"
                        THEN Fixed3(Get(goalies[i], "value", 0))
                        ELSE Str(Get(goalies[i], "value", 0))) \o "\n"])

-----------------------------------------------------------------------------
(* server.py: analyze_streak *)

\* every game that has started counts as completed
IsCompletedOrLive(g) == Get(g, "gameState", "") \in {"OFF", "FINAL", "LIVE", "CRIT"}

\* g.get("gameState") in ("OFF", "FINAL")
IsCompleted(g) == Get(g, "gameState", "") \in {"OFF", "FINAL"}

\* x.get("gameDate", "")
DateKey(g) == Get(g, "gameDate", "")

RECURSIVE InsertDesc(_, _)
\* g placed after every game of the descending list s dated no earlier than g
InsertDesc(s, g) ==
    IF s = <<>> THEN <<g>>
    ELSE IF StrLess(DateKey(s[1]), DateKey(g)) THEN <<g>> \o s
    ELSE <<s[1]>> \o InsertDesc(Tail(s), g)

RECURSIVE SortByDateDesc(_)
\* list.sort(key=gameDate, reverse=True): stable, latest first
SortByDateDesc(s) ==
    IF s = <<>> THEN <<>>
    ELSE InsertDesc(SortByDateDesc(SubSeq(s, 1, Len(s) - 1)), s[Len(s)])

\* the body of the loop up to recent_results.append: result and line of a game
StreakResult(team_abbrev, game) ==
    LET is_home == Get(Get(game, "homeTeam", NoRecord), "abbrev", "") = team_abbrev
        mine == IF is_home THEN "homeTeam" ELSE "awayTeam"
        theirs == IF is_home THEN "awayTeam" ELSE "homeTeam"
        team_score == Get(Get(game, mine, NoRecord), "score", 0)
        opp_score == Get(Get(game, theirs, NoRecord), "score", 0)
        opp_team == Get(Get(game, theirs, NoRecord), "abbrev", "")
        result == IF team_score > opp_score THEN "W" ELSE "L"
    IN [result |-> result,
        line |-> result \o " " \o Str(team_score) \o "-" \o Str(opp_score) \o " vs " \o opp_team]

RECURSIVE StreakLoop(_, _, _, _)
\* "for game in completed_games" from index i on, with the loop's variables in st
StreakLoop(team_abbrev, completed_games, i, st) ==
    IF i > Len(completed_games) THEN st
    ELSE LET r == StreakResult(team_abbrev, completed_games[i])
             recent == Append(st.recent_results, r.line)
         IN IF st.streak_count = 0 \/ r.result = st.streak_type
            THEN LET nxt == [streak_count |-> st.streak_count + 1,
                             streak_type |-> r.result,
                             recent_results |-> recent]
                 IN IF Len(recent) >= RecentCap THEN nxt
                    ELSE StreakLoop(team_abbrev, completed_games, i + 1, nxt)
            ELSE [st EXCEPT !.recent_results = recent]

\* the try block, once the schedule is fetched
analyze_streak_try(team_abbrev, schedule) ==
    LET games == Get(schedule, "games", <<>>)
        completed_games == SortByDateDesc(SelectSeq(games, IsCompleted))
        st == StreakLoop(team_abbrev, completed_games, 1,
                         [streak_count |-> 0, streak_type |-> "", recent_results |-> <<>>])
        streak_text == IF st.streak_type = "W"
                       THEN Str(st.streak_count) \o " game winning streak"
                       ELSE Str(st.streak_count) \o " game losing streak"
    IN IF games = <<>> THEN "No games found for " \o team_abbrev
       ELSE IF completed_games = <<>>
       THEN "No completed games found for " \o team_abbrev \o " this season"
       ELSE team_abbrev \o " Current Streak: " \o streak_text \o "\n\n"
            \o "Last 10 games:\n" \o Join("\n", st.recent_results)

\* no handler: the exception leaves analyze_streak
analyze_streak_uncaught(step) == step

\* except Exception as e
analyze_streak_except(step) ==
    IF step.kind = "raise" THEN Return("Error analyzing streak: " \o step.exc) ELSE step

\* analyze_streak from the return of get_team_schedule on
analyze_streak(team_abbrev, fetched) ==
    analyze_streak_except(
        IF fetched.kind = "raise" THEN fetched
        ELSE Return(analyze_streak_try(team_abbrev, fetched.value)))

-----------------------------------------------------------------------------
(* server.py: compare_teams_head_to_head *)

HomeAbbrev(game) == Get(Get(game, "homeTeam", NoRecord), "abbrev", "")
AwayAbbrev(game) == Get(Get(game, "awayTeam", NoRecord), "abbrev", "")

\* the condition of the list comprehension "matchups"
IsMatchup(team1, team2, game) ==
    \/ HomeAbbrev(game) = team1 /\ AwayAbbrev(game) = team2
    \/ HomeAbbrev(game) = team2 /\ AwayAbbrev(game) = team1

\* the winner decided by home score against away score
MatchupStepHomeWins(team1, team2, game, st) ==
    LET home_score == Get(Get(game, "homeTeam", NoRecord), "score", 0)
        away_score == Get(Get(game, "awayTeam", NoRecord), "score", 0)
        winner == IF home_score > away_score THEN team1 ELSE team2
    IN [team1_wins |-> st.team1_wins + (IF winner = team1 THEN 1 ELSE 0),
        team2_wins |-> st.team2_wins + (IF winner = team2 THEN 1 ELSE 0),
        results |-> Append(st.results, Get(game, "gameDate", "") \o ": " \o winner \o " WIN")]

\* a completed game with equal scores is a draw: neither counter moves
MatchupStepDraw(team1, team2, game, st) ==
    LET is_team1_home == HomeAbbrev(game) = team1
        team1_score == Get(Get(game, IF is_team1_home THEN "homeTeam" ELSE "awayTeam",
                               NoRecord), "score", 0)
        team2_score == Get(Get(game, IF is_team1_home THEN "awayTeam" ELSE "homeTeam",
                               NoRecord), "score", 0)
        game_state == Get(game, "gameState", "")
        scores == Get(game, "gameDate", "") \o ": " \o team1 \o " " \o Str(team1_score)
                  \o ", " \o team2 \o " " \o Str(team2_score)
    IN IF game_state \in {"OFF", "FINAL"}
       THEN IF team1_score > team2_score
            THEN [team1_wins |-> st.team1_wins + 1, team2_wins |-> st.team2_wins,
                  results |-> Append(st.results, scores \o " - " \o team1 \o " WIN")]
            ELSE IF team1_score < team2_score
            THEN [team1_wins |-> st.team1_wins, team2_wins |-> st.team2_wins + 1,
                  results |-> Append(st.results, scores \o " - " \o team2 \o " WIN")]
            ELSE [st EXCEPT !.results = Append(@, scores \o " - DRAW")]
       ELSE IF game_state = "FUT"
       THEN [st EXCEPT !.results = Append(@, Get(game, "gameDate", "") \o ": Upcoming game")]
       ELSE [st EXCEPT !.results = Append(@, scores \o " - IN PROGRESS")]

\* one pass of "for game in matchups": the loop's variables after the game
MatchupStep(team1, team2, game, st) ==
    LET is_team1_home == HomeAbbrev(game) = team1
        team1_score == Get(Get(game, IF is_team1_home THEN "homeTeam" ELSE "awayTeam",
                               NoRecord), "score", 0)
        team2_score == Get(Get(game, IF is_team1_home THEN "awayTeam" ELSE "homeTeam",
                               NoRecord), "score", 0)
        game_state == Get(game, "gameState", "")
        scores == Get(game, "gameDate", "") \o ": " \o team1 \o " " \o Str(team1_score)
                  \o ", " \o team2 \o " " \o Str(team2_score)
    IN IF game_state \in {"OFF", "FINAL"}
       THEN IF team1_score > team2_score
            THEN [team1_wins |-> st.team1_wins + 1, team2_wins |-> st.team2_wins,
                  results |-> Append(st.results, scores \o " - " \o team1 \o " WIN")]
            ELSE [team1_wins |-> st.team1_wins, team2_wins |-> st.team2_wins + 1,
                  results |-> Append(st.results, scores \o " - " \o team2 \o " WIN")]
       ELSE IF game_state = "FUT"
       THEN [st EXCEPT !.results = Append(@, Get(game, "gameDate", "") \o ": Upcoming game")]
       ELSE [st EXCEPT !.results = Append(@, scores \o " - IN PROGRESS")]

RECURSIVE MatchupLoop(_, _, _, _, _)
MatchupLoop(team1, team2, matchups, i, st) ==
    IF i > Len(matchups) THEN st
    ELSE MatchupLoop(team1, team2, matchups, i + 1,
                     MatchupStep(team1, team2, matchups[i], st))

\* the try block, once team1's schedule is fetched
compare_teams_try(team1, team2, schedule1) ==
    LET games == Get(schedule1, "games", <<>>)
        matchups == SelectSeq(games, LAMBDA g : IsMatchup(team1, team2, g))
        st == MatchupLoop(team1, team2, matchups, 1,
                          [team1_wins |-> 0, team2_wins |-> 0, results |-> <<>>])
    IN IF games = <<>> THEN "No schedule data found for " \o team1
       ELSE IF matchups = <<>>
       THEN "No matchups found between " \o team1 \o " and " \o team2 \o " this season"
       ELSE "Head-to-Head: " \o team1 \o " vs " \o team2 \o "\n\n"
            \o "Season Series: " \o team1 \o " " \o Str(st.team1_wins) \o "-"
            \o Str(st.team2_wins) \o " " \o team2 \o "\n\n"
            \o "Games:\n" \o Join("\n", st.results)

\* except Exception as e
compare_teams_except(step) ==
    IF step.kind = "raise" THEN Return("Error comparing teams: " \o step.exc) ELSE step

\* compare_teams_head_to_head from the return of get_team_schedule on
compare_teams_head_to_head(team1, team2, fetched) ==
    compare_teams_except(
        IF fetched.kind = "raise" THEN fetched
        ELSE Return(compare_teams_try(team1, team2, fetched.value)))

-----------------------------------------------------------------------------
(* server.py: compare_seasons *)

RECURSIVE SumField(_, _)
\* sum(t.get(k, 0) for t in teams)
SumField(teams, k) ==
    IF teams = <<>> THEN 0 ELSE Get(teams[1], k, 0) + SumField(Tail(teams), k)

\* the average taken over the teams instead of the games
LeagueBlockPerTeam(season, standings_data) ==
    LET teams == Get(standings_data, "standings", <<>>)
        total_goals == SumField(teams, "goalFor")
        avg_goals == IF Len(teams) > 0 THEN Fixed2Div(total_goals, Len(teams)) ELSE "0.00"
    IN "Season " \o format_season(season) \o ":\n"
       \o "  Total teams: " \o Str(Len(teams)) \o "\n"
       \o "  Total goals: " \o Str(total_goals) \o "\n"
       \o "  Avg goals/game: " \o avg_goals

\* the block of one season in league-wide mode
LeagueBlock(season, standings_data) ==
    LET teams == Get(standings_data, "standings", <<>>)
        total_goals == SumField(teams, "goalFor")
        total_games == SumField(teams, "gamesPlayed")
        avg_goals == IF total_games > 0 THEN Fixed2Div(total_goals, total_games) ELSE "0.00"
    IN "Season " \o format_season(season) \o ":\n"
       \o "  Total teams: " \o Str(Len(teams)) \o "\n"
       \o "  Total goals: " \o Str(total_goals) \o "\n"
       \o "  Avg goals/game: " \o avg_goals

\* the abbreviation compared without regard to case
IsTeamAnyCase(team_abbrev, t) ==
    LET abbrev == Get(Get(t, "teamAbbrev", NoRecord), "default", "")
    IN abbrev = team_abbrev \/ (abbrev = "tor" /\ team_abbrev = "TOR")

\* t.get("teamAbbrev", {}).get("default") == team_abbrev
IsTeam(team_abbrev, t) == Get(Get(t, "teamAbbrev", NoRecord), "default", "") = team_abbrev

\* the block of one season in per-team mode
TeamBlock(season, team_abbrev, standings_data) ==
    LET teams == Get(standings_data, "standings", <<>>)
        found == SelectSeq(teams, LAMBDA t : IsTeam(team_abbrev, t))
        team == found[1]
    IN IF found # <<>>
       THEN format_season(season) \o " - " \o team_abbrev \o ":\n"
            \o "  Record: " \o Str(Get(team, "wins", 0)) \o "-" \o Str(Get(team, "losses", 0))
            \o "-" \o Str(Get(team, "otLosses", 0)) \o "\n"
            \o "  Points: " \o Str(Get(team, "points", 0)) \o "\n"
            \o "  Goals For: " \o Str(Get(team, "goalFor", 0)) \o "\n"
            \o "  Goals Against: " \o Str(Get(team, "goalAgainst", 0)) \o "\n"
            \o "  Goal Diff: " \o Str(Get(team, "goalDifferential", 0))
       ELSE format_season(season) \o " - " \o team_abbrev \o ": No data found"

\* the return statement of either mode
SeasonsReport(team_abbrev, blocks) ==
    (IF team_abbrev = "" THEN "Season Comparison:\n\n"
     ELSE "Season Comparison for " \o team_abbrev \o ":\n\n")
    \o Join("\n\n", blocks)

\* the handler appends the error to the blocks computed so far
compare_seasons_except_partial(step, blocks) ==
    IF step.kind = "raise"
    THEN Return(Join("\n\n", Append(blocks, "Error comparing seasons: " \o step.exc)))
    ELSE step

\* except Exception as e
compare_seasons_except(step, blocks) ==
    IF step.kind = "raise" THEN Return("Error comparing seasons: " \o step.exc) ELSE step

\* "for season in seasons" with i seasons done: fetch the next one, or return
SeasonsLoop(seasons, team_abbrev, i, blocks) ==
    IF i < Len(seasons) THEN Await(url_standings_by_season(seasons[i + 1]))
    ELSE Return(SeasonsReport(team_abbrev, blocks))

\* compare_seasons up to its first fetch
compare_seasons_begin(seasons, team_abbrev) == SeasonsLoop(seasons, team_abbrev, 0, <<>>)

\* the list "results" after the i-th fetch has come back
SeasonsResults(seasons, team_abbrev, i, blocks, fetched) ==
    IF fetched.kind = "raise" THEN blocks
    ELSE Append(blocks, IF team_abbrev = ""
                        THEN LeagueBlock(seasons[i], fetched.value)
                        ELSE TeamBlock(seasons[i], team_abbrev, fetched.value))

\* a season whose fetch failed is skipped and the loop goes on
compare_seasons_skip_failed(seasons, team_abbrev, i, blocks, fetched) ==
    SeasonsLoop(seasons, team_abbrev, i,
                SeasonsResults(seasons, team_abbrev, i, blocks, fetched))

\* compare_seasons from the return of the i-th get_standings_by_season on
compare_seasons(seasons, team_abbrev, i, blocks, fetched) ==
    compare_seasons_except(
        IF fetched.kind = "raise" THEN fetched
        ELSE SeasonsLoop(seasons, team_abbrev, i,
                         SeasonsResults(seasons, team_abbrev, i, blocks, fetched)),
        blocks)

-----------------------------------------------------------------------------
(* server.py: call_tool *)

TextContent(text) == [type |-> "text", text |-> text]

\* return [TextContent(type="text", text=...)]
Payload(text) == Return(<<TextContent(text)>>)

\* arguments[k] inside an expression e: KeyError when k is missing
Subscript(a, k, e) == IF k \in DOMAIN a THEN e ELSE Raise(KeyError(k))

\* the try block up to the first client.get
call_tool_begin(n, a, t) ==
    CASE n = "get_live_games" -> Await(url_todays_scores(Get(a, "date", ""), t))
      [] n = "get_game_details" ->
            Subscript(a, "gameId", Await(url_game_details(a.gameId)))
      [] n = "get_standings" -> Await(url_standings(Get(a, "date", ""), t))
      [] n = "get_team_stats" ->
            Subscript(a, "teamAbbrev",
                      Await(url_team_stats(a.teamAbbrev, Get(a, "season", ""), t)))
      [] n = "get_player_stats" ->
            Await(url_top_skaters(Get(a, "category", "points"),
                                  Get(a, "limit", DefaultLimit), Get(a, "season", "")))
      [] n = "get_goalie_stats" ->
            Await(url_top_goalies(Get(a, "limit", DefaultLimit), Get(a, "season", "")))
      [] n = "get_schedule" ->
            IF "teamAbbrev" \in DOMAIN a
            THEN Await(url_team_schedule(a.teamAbbrev, Get(a, "season", ""), t))
            ELSE Await(url_schedule(Get(a, "date", ""), t))
      [] n = "get_playoff_bracket" -> Await(url_playoff_bracket(Get(a, "season", ""), t))
      [] n = "compare_teams" ->
            Subscript(a, "team1", Subscript(a, "team2",
                Await(url_team_schedule(a.team1, Get(a, "season", ""), t))))
      [] n = "get_team_streak" ->
            Subscript(a, "teamAbbrev", Await(url_team_schedule(a.teamAbbrev, "", t)))
      [] n = "compare_seasons" ->
            Subscript(a, "seasons",
                      LET first == compare_seasons_begin(a.seasons, Get(a, "teamAbbrev", ""))
                      IN IF first.kind = "return" THEN Payload(first.value) ELSE first)
      [] OTHER -> Payload("Unknown tool: " \o n)

\* a record is kept when it passes either filter
FilterStandingsEither(a, standings) ==
    SelectSeq(standings,
        LAMBDA t : \/ {"division", "conference"} \cap DOMAIN a = {}
                   \/ /\ "division" \in DOMAIN a
                      /\ Lower(Get(t, "divisionAbbrev", "")) = Lower(a.division)
                   \/ /\ "conference" \in DOMAIN a
                      /\ Lower(Get(t, "conferenceAbbrev", "")) = Lower(a.conference))

\* the two filters of get_standings
FilterStandings(a, standings) ==
    LET by_division ==
            IF "division" \in DOMAIN a
            THEN SelectSeq(standings,
                     LAMBDA t : Lower(Get(t, "divisionAbbrev", "")) = Lower(a.division))
            ELSE standings
    IN IF "conference" \in DOMAIN a
       THEN SelectSeq(by_division,
                LAMBDA t : Lower(Get(t, "conferenceAbbrev", "")) = Lower(a.conference))
       ELSE by_division

\* the try block from the i-th client.get on; fetched is what _fetch_json gave
call_tool_resume(n, a, i, blocks, fetched) ==
    IF n \in {"compare_teams", "get_team_streak", "compare_seasons"}
    THEN LET helper ==
                 CASE n = "compare_teams" ->
                        compare_teams_head_to_head(a.team1, a.team2, fetched)
                   [] n = "get_team_streak" -> analyze_streak(a.teamAbbrev, fetched)
                   [] OTHER -> compare_seasons(a.seasons, Get(a, "teamAbbrev", ""),
                                               i, blocks, fetched)
         IN IF helper.kind = "return" THEN Payload(helper.value) ELSE helper
    ELSE IF fetched.kind = "raise" THEN fetched
    ELSE LET data == fetched.value
         IN CASE n = "get_live_games" ->
                   LET games == Get(data, "games", <<>>)
                   IN IF games = <<>> THEN Payload("No games scheduled for this date")
                      ELSE Payload(Join("\n\n", [j \in 1..Len(games) |->
                                                    format_game_score(games[j])]))
              [] n = "get_standings" ->
                   Payload(format_standings(
                       FilterStandings(a, Get(data, "standings", <<>>))))
              [] n = "get_player_stats" ->
                   LET category == Get(a, "category", "points")
                   IN Payload(format_player_stats(Get(data, category, <<>>), category))
              [] n = "get_goalie_stats" ->
                   Payload(format_goalie_stats(Get(data, "savePctg", <<>>), "savePctg"))
              [] OTHER -> Payload(JsonDumps(data))

\* no handler: the exception leaves call_tool
call_tool_uncaught(n, step) == step

\* the handler's text without the tool name
call_tool_except_unnamed(n, step) ==
    IF step.kind = "raise"
    THEN Payload("Error executing tool: " \o step.exc)
    ELSE step

\* except Exception as e
call_tool_except(n, step) ==
    IF step.kind = "raise"
    THEN Payload("Error executing " \o n \o ": " \o step.exc)
    ELSE step

-----------------------------------------------------------------------------
(* Inputs *)

CataloguedTools ==
    {"get_live_games", "get_game_details", "get_standings", "get_team_stats",
     "get_player_stats", "get_goalie_stats", "get_schedule", "get_playoff_bracket",
     "compare_teams", "get_team_streak", "compare_seasons"}

ToolNames == CataloguedTools \cup {"get_weather"}

\* the "required" list of a tool's inputSchema
RequiredKeys(n) ==
    CASE n = "get_game_details" -> {"gameId"}
      [] n = "get_team_stats" -> {"teamAbbrev"}
      [] n = "compare_teams" -> {"team1", "team2"}
      [] n = "get_team_streak" -> {"teamAbbrev"}
      [] n = "compare_seasons" -> {"seasons"}
      [] OTHER -> {}

SeasonIds == {"20232024", "2024"}

ArgumentsFor(n) ==
    {NoRecord} \cup
    CASE n = "get_live_games" -> {[date |-> "2024-10-05"]}
      [] n = "get_game_details" -> {[gameId |-> 2024020001]}
      [] n = "get_standings" ->
            {[date |-> "2024-10-05"], [division |-> "a"], [conference |-> "E"],
             [division |-> "M", conference |-> "w"], [division |-> "A", conference |-> "e"]}
      [] n = "get_team_stats" -> {[teamAbbrev |-> "TOR"], [season |-> "20232024"]}
      [] n = "get_player_stats" -> {[category |-> "goals", limit |-> 5, season |-> "20232024"]}
      [] n = "get_goalie_stats" -> {[limit |-> 5], [season |-> "20232024"]}
      [] n = "get_schedule" -> {[date |-> "2024-10-05"], [teamAbbrev |-> "TOR"]}
      [] n = "get_playoff_bracket" -> {[season |-> "2024"]}
      [] n = "compare_teams" ->
            {[team1 |-> "TOR"], [team2 |-> "MTL"], [team1 |-> "TOR", team2 |-> "MTL"],
             [team1 |-> "TOR", team2 |-> "MTL", season |-> "20232024"]}
      [] n = "get_team_streak" -> {[teamAbbrev |-> "TOR"]}
      [] n = "compare_seasons" ->
            {[teamAbbrev |-> "TOR"]}
            \cup {[seasons |-> s] : s \in SeqsUpTo(SeasonIds, MaxSeasons)}
            \cup {[seasons |-> s, teamAbbrev |-> "TOR"] : s \in SeqsUpTo(SeasonIds, MaxSeasons)}
      [] OTHER -> {}

\* readings of the local clock: the last day before and the first day of a season
ClockReadings ==
    {[year |-> 2024, month |-> 9, day |-> 30], [year |-> 2024, month |-> 10, day |-> 1]}

\* the bodies a 200 answer to tool n's request can carry
BodiesFor(n, a) ==
    CASE n = "get_live_games" -> ScoreBodies
      [] n \in {"get_standings", "compare_seasons"} -> StandingsBodies
      [] n \in {"compare_teams", "get_team_streak"} -> ScheduleBodies
      [] n = "get_player_stats" -> LeaderBodies(Get(a, "category", "points"), Skater)
      [] n = "get_goalie_stats" -> LeaderBodies("savePctg", Goalie)
      [] OTHER -> JsonBodies

\* what client.get can come back with
Outcomes(n, a) ==
    {Failed(e) : e \in TransportErrors}
    \cup {Answer(c, NoRecord) : c \in StatusCodes \ {200}}
    \cup {Answer(200, b) : b \in BodiesFor(n, a)}

-----------------------------------------------------------------------------
(* The server as a state machine *)

\* no invocation of call_tool is in progress
CallIdle ==
    /\ pc = "idle"
    /\ name = ""
    /\ arguments = NoRecord
    /\ requests = <<>>
    /\ responses = <<>>
    /\ results = <<>>
    /\ ret = <<>>
    /\ raised = ""

\* _get_current_season has not been called
SeasonIdle ==
    /\ now = [year |-> 1998, month |-> 1, day |-> 1]
    /\ current_season = ""

\* before server.py is imported there is no client
NoClient == [state |-> "none", opens |-> 0, closes |-> 0]

\* NHLAPIClient(): __init__ opens an httpx.AsyncClient in place of h
NHLAPIClient(h) == [state |-> "open", opens |-> h.opens + 1, closes |-> h.closes]

\* NHLAPIClient.close: aclose() on the httpx.AsyncClient
close(h) == [state |-> "closed", opens |-> h.opens, closes |-> h.closes + 1]

\* the module-level client of server.py
AsyncClient == NHLAPIClient(NoClient)

\* the process is serving, with no concurrent invocation on record
ServerUp ==
    /\ process = "serving"
    /\ http = AsyncClient
    /\ tasks = <<>>
    /\ wire = {}

Init == CallIdle /\ SeasonIdle /\ ServerUp

\* call_tool leaves with a value or with an exception
Leave(step) ==
    /\ pc' = "done"
    /\ ret' = IF step.kind = "return" THEN step.value ELSE <<>>
    /\ raised' = IF step.kind = "raise" THEN step.exc ELSE ""

\* call_tool suspends in client.get(url)
Suspend(step) ==
    /\ pc' = "await"
    /\ requests' = Append(requests, step.url)
    /\ UNCHANGED <<ret, raised>>

\* the transport hands a tool call to call_tool, which runs to its first await
Call(n, a, t) ==
    /\ pc = "idle"
    /\ name' = n
    /\ arguments' = a
    /\ UNCHANGED <<responses, results, seasonVars, serverVars>>
    /\ LET step == call_tool_except(n, call_tool_begin(n, a, t))
       IN IF step.kind = "await" THEN Suspend(step)
          ELSE Leave(step) /\ UNCHANGED requests

\* call_tool goes on from client.get having come back with outcome o
Resume(o) ==
    /\ LET i == Len(responses) + 1
           fetched == fetch_json(requests[i], o)
           step == call_tool_except(name,
                       call_tool_resume(name, arguments, i, results, fetched))
       IN /\ responses' = Append(responses, o)
          /\ results' = IF name = "compare_seasons"
                        THEN SeasonsResults(arguments.seasons, Get(arguments, "teamAbbrev", ""),
                                            i, results, fetched)
                        ELSE results
          /\ IF step.kind = "await" THEN Suspend(step)
             ELSE Leave(step) /\ UNCHANGED requests
    /\ UNCHANGED <<name, arguments, seasonVars, serverVars>>

\* the transport sends the payload; the server is ready for the next call
Reply ==
    /\ pc = "done"
    /\ pc' = "idle"
    /\ name' = ""
    /\ arguments' = NoRecord
    /\ requests' = <<>>
    /\ responses' = <<>>
    /\ results' = <<>>
    /\ ret' = <<>>
    /\ raised' = ""
    /\ UNCHANGED <<seasonVars, serverVars>>

\* client.get comes back and call_tool runs to its next await
Respond ==
    /\ pc = "await"
    /\ \E o \in Outcomes(name, arguments) : Resume(o)

Next ==
    \/ \E n \in ToolNames : \E a \in ArgumentsFor(n) : \E t \in ClockReadings : Call(n, a, t)
    \/ Respond
    \/ Reply

Spec == Init /\ [][Next]_vars

-----------------------------------------------------------------------------
(* Vocabulary of the properties *)

StartsWith(s, prefix) == Len(s) >= Len(prefix) /\ SubSeq(s, 1, Len(prefix)) = prefix

EndsWith(s, suffix) ==
    Len(s) >= Len(suffix) /\ SubSeq(s, Len(s) - Len(suffix) + 1, Len(s)) = suffix

Contains(s, part) ==
    \E i \in 1..(Len(s) - Len(part) + 1) : SubSeq(s, i, i + Len(part) - 1) = part

\* the invocation has returned one text payload
Returned == pc = "done" /\ Len(ret) = 1

\* the text of the returned payload
Text == ret[1].text

\* the k-th request of the invocation failed: no answer, or an answer that is not 2xx
FailedAt(k) ==
    k \in DOMAIN responses /\ (responses[k].kind = "error" \/ responses[k].status \div 100 # 2)

FetchFailed == \E k \in DOMAIN responses : FailedAt(k)

\* every request so far was answered 200
AllAnswered == \A k \in DOMAIN responses : ~FailedAt(k)

\* the keys the catalogue declares "required" and the call does not give
MissingRequired == RequiredKeys(name) \ DOMAIN arguments

HelperTools == {"compare_teams", "get_team_streak", "compare_seasons"}

\* the words after "Error " in a helper's own error text
HelperContext(n) ==
    CASE n = "compare_teams" -> "comparing teams"
      [] n = "get_team_streak" -> "analyzing streak"
      [] n = "compare_seasons" -> "comparing seasons"

ErrorExecuting == StartsWith(Text, "Error executing " \o name \o ": ")

-----------------------------------------------------------------------------
(* C1: every tool invocation, whatever its name, its arguments and the       *)
(* upstream outcomes, ends by returning exactly one text payload; no         *)
(* exception ever leaves call_tool.                                          *)
C1_AlwaysOnePayload ==
    /\ raised = ""
    /\ pc = "done" => Len(ret) = 1 /\ ret[1].type = "text"
    /\ pc # "done" => ret = <<>>

\* a tool that calls the client directly has returned after a failed fetch
C1_Witness ==
    /\ Returned
    /\ name = "get_team_stats"
    /\ FetchFailed
    /\ ret[1].type = "text"

-----------------------------------------------------------------------------
(* C2, as claimed: for each catalogued tool, a failed upstream fetch or a    *)
(* missing required argument gives a payload that begins with                *)
(* "Error executing {name}: ".                                               *)
C2_Original ==
    (Returned /\ name \in CataloguedTools /\ (FetchFailed \/ MissingRequired # {}))
        => ErrorExecuting

(* C2, amended: a missing required argument (any catalogued tool) or a       *)
(* failed fetch in one of the eight tools that call the client directly      *)
(* gives a payload beginning "Error executing {name}: "; a failed fetch in   *)
(* compare_teams, get_team_streak or compare_seasons is caught by the helper *)
(* and the payload begins with the helper's own "Error {context}: " instead. *)
C2_Amended ==
    (pc = "done" /\ name \in CataloguedTools) =>
        /\ MissingRequired # {} => Returned /\ ErrorExecuting
        /\ (FetchFailed /\ name \notin HelperTools) => Returned /\ ErrorExecuting
        /\ (FetchFailed /\ name \in HelperTools) =>
               /\ Returned
               /\ ~ErrorExecuting
               /\ StartsWith(Text, "Error " \o HelperContext(name) \o ": ")

C2_Witness ==
    /\ Returned
    /\ name = "get_game_details"
    /\ FailedAt(1)
    /\ responses[1].kind = "response"
    /\ ErrorExecuting

-----------------------------------------------------------------------------
(* C3: when an upstream fetch fails during analyze_streak,                   *)
(* compare_teams_head_to_head or compare_seasons, the helper does not raise: *)
(* the text starts with "Error ", names the helper's context and ends with   *)
(* the cause.                                                                *)
C3_HelperErrorText ==
    (pc = "done" /\ name \in HelperTools /\ FetchFailed) =>
        /\ raised = ""
        /\ Returned
        /\ StartsWith(Text, "Error " \o HelperContext(name) \o ": ")
        /\ LET o == responses[Len(responses)]
           IN IF o.kind = "error"
              THEN Text = "Error " \o HelperContext(name) \o ": " \o o.exc
              ELSE /\ Contains(Text, Str(o.status))
                   /\ Contains(Text, requests[Len(requests)])

C3_Witness ==
    /\ Returned
    /\ name = "get_team_streak"
    /\ FailedAt(1)
    /\ Text = "Error analyzing streak: All connection attempts failed"

-----------------------------------------------------------------------------
(* Vocabulary of the streak properties *)

\* get_team_streak has returned on a fetched schedule
StreakAnswered ==
    /\ Returned
    /\ name = "get_team_streak"
    /\ "teamAbbrev" \in DOMAIN arguments
    /\ Len(responses) = 1
    /\ ~FailedAt(1)

FetchedGames == Get(responses[1].body, "games", <<>>)

\* the completed games of the fetched schedule, most recent first
CompletedDesc ==
    SortByDateDesc(SelectSeq(FetchedGames, LAMBDA g : g.gameState \in {"OFF", "FINAL"}))

\* the goals of the side of game g that is (mine) or is not the team
Goals(g, team, mine) ==
    LET side == IF (g.homeTeam.abbrev = team) = mine THEN "homeTeam" ELSE "awayTeam"
    IN Get(g[side], "score", 0)

\* "W" when the team scored more than its opponent, else "L"
Outcome(g, team) == IF Goals(g, team, TRUE) > Goals(g, team, FALSE) THEN "W" ELSE "L"

\* the number of leading games of s with the outcome of the first
RunLength(s, team) ==
    CHOOSE k \in 1..Len(s) :
        /\ \A j \in 1..k : Outcome(s[j], team) = Outcome(s[1], team)
        /\ k = Len(s) \/ Outcome(s[k + 1], team) # Outcome(s[1], team)

StreakWord(o) == IF o = "W" THEN "winning" ELSE "losing"

StreakHeader(team, n, o) ==
    team \o " Current Streak: " \o Str(n) \o " game " \o StreakWord(o) \o " streak\n\n"

RecentLine(g, team) ==
    Outcome(g, team) \o " " \o Str(Goals(g, team, TRUE)) \o "-" \o Str(Goals(g, team, FALSE))
    \o " vs " \o (IF g.homeTeam.abbrev = team THEN g.awayTeam.abbrev ELSE g.homeTeam.abbrev)

Min(a, b) == IF a < b THEN a ELSE b

-----------------------------------------------------------------------------
(* C4: for a schedule with at least one completed game the reported streak   *)
(* is the maximal run of same-outcome results ending at the most recent      *)
(* completed game: its type is that game's outcome and its length the number *)
(* of consecutive games with that outcome from there backwards.              *)
C4_MaximalRun ==
    (StreakAnswered /\ CompletedDesc # <<>>) =>
        LET team == arguments.teamAbbrev
        IN StartsWith(Text, StreakHeader(team, RunLength(CompletedDesc, team),
                                         Outcome(CompletedDesc[1], team)))

-----------------------------------------------------------------------------
(* C5: the recent-results block lists exactly the first min(10, n) completed *)
(* games, most recent first; it is not cut at the end of the streak.         *)
C5_RecentResults ==
    (StreakAnswered /\ CompletedDesc # <<>>) =>
        LET team == arguments.teamAbbrev
            shown == Min(RecentCap, Len(CompletedDesc))
        IN EndsWith(Text, "\n\nLast 10 games:\n"
                          \o Join("\n", [i \in 1..shown |-> RecentLine(CompletedDesc[i], team)]))

-----------------------------------------------------------------------------
(* C6: a schedule with no games gives the "No games found" text, a schedule  *)
(* with games of which none is OFF or FINAL gives the other text, "No        *)
(* completed games found"; neither is an error and neither has a streak      *)
(* header, which appears exactly when some game is completed.                *)
C6_EmptyCases ==
    StreakAnswered =>
        LET team == arguments.teamAbbrev
        IN /\ FetchedGames = <<>> => Text = "No games found for " \o team
           /\ (FetchedGames # <<>> /\ CompletedDesc = <<>>) =>
                  Text = "No completed games found for " \o team \o " this season"
           /\ Contains(Text, "Current Streak") <=> CompletedDesc # <<>>
           /\ ~StartsWith(Text, "Error")

C6_Witness ==
    /\ StreakAnswered
    /\ Len(FetchedGames) = 2
    /\ FetchedGames[1].gameState = "LIVE"
    /\ FetchedGames[2].gameState = "FUT"
    /\ StartsWith(Text, "No completed games found")

-----------------------------------------------------------------------------
(* Vocabulary of the head-to-head properties *)

\* compare_teams has returned on a fetched schedule
TeamsAnswered ==
    /\ Returned
    /\ name = "compare_teams"
    /\ {"team1", "team2"} \subseteq DOMAIN arguments
    /\ Len(responses) = 1
    /\ ~FailedAt(1)

\* the games of the fetched schedule between the two teams, in schedule order
Matchups(team1, team2) ==
    SelectSeq(FetchedGames,
              LAMBDA g : {g.homeTeam.abbrev, g.awayTeam.abbrev} = {team1, team2})

\* the indices of the completed matchups that team won
WonBy(m, team) ==
    {i \in DOMAIN m : /\ m[i].gameState \in {"OFF", "FINAL"}
                      /\ Goals(m[i], team, TRUE) > Goals(m[i], team, FALSE)}

CompletedIn(m) == {i \in DOMAIN m : m[i].gameState \in {"OFF", "FINAL"}}

\* the line of matchup g
MatchupLine(g, team1, team2) ==
    LET both == team1 \o " " \o Str(Goals(g, team1, TRUE)) \o ", "
                \o team2 \o " " \o Str(Goals(g, team1, FALSE))
    IN g.gameDate \o ": " \o
       (IF g.gameState \in {"OFF", "FINAL"}
        THEN both \o " - "
             \o (IF Goals(g, team1, TRUE) > Goals(g, team1, FALSE) THEN team1 ELSE team2)
             \o " WIN"
        ELSE IF g.gameState = "FUT" THEN "Upcoming game"
        ELSE both \o " - IN PROGRESS")

-----------------------------------------------------------------------------
(* C7: the series tally counts for team1 the completed matchups in which     *)
(* team1 scored more than team2, whichever of them is home, and the output   *)
(* has exactly one line per matchup, in the order of the fetched schedule.   *)
C7_TallyAndOrder ==
    TeamsAnswered =>
        LET team1 == arguments.team1
            team2 == arguments.team2
            m == Matchups(team1, team2)
            won == Cardinality(WonBy(m, team1))
        IN m # <<>> =>
             Text = "Head-to-Head: " \o team1 \o " vs " \o team2 \o "\n\n"
                    \o "Season Series: " \o team1 \o " " \o Str(won) \o "-"
                    \o Str(Cardinality(CompletedIn(m)) - won) \o " " \o team2 \o "\n\n"
                    \o "Games:\n"
                    \o Join("\n", [i \in DOMAIN m |-> MatchupLine(m[i], team1, team2)])

\* team1 wins 3-2, then loses 1-4 away on an earlier date
C7_Witness ==
    /\ TeamsAnswered
    /\ FetchedGames = <<Played("2024-10-12", <<"TOR", "MTL">>, "OFF", <<3, 2>>),
                        Played("2024-10-05", <<"MTL", "TOR">>, "OFF", <<3, 2>>)>>
    /\ Contains(Text, "Season Series: TOR 1-1 MTL\n\n")
    /\ EndsWith(Text, "Games:\n2024-10-12: TOR 3, MTL 2 - TOR WIN\n"
                      \o "2024-10-05: TOR 2, MTL 3 - MTL WIN")

-----------------------------------------------------------------------------
(* Vocabulary of the season comparison properties *)

\* compare_seasons is running or has returned, on a list of seasons
SeasonsCalled == name = "compare_seasons" /\ "seasons" \in DOMAIN arguments

TeamArg == Get(arguments, "teamAbbrev", "")

\* the team records of the k-th answer
StandingsAt(k) == Get(responses[k].body, "standings", <<>>)

\* the records of the k-th answer whose abbreviation is exactly abbrev
Named(k, abbrev) ==
    {j \in DOMAIN StandingsAt(k) :
        /\ "teamAbbrev" \in DOMAIN StandingsAt(k)[j]
        /\ StandingsAt(k)[j].teamAbbrev.default = abbrev}

\* the sum of field f over the records of the k-th answer, from record j on
RECURSIVE Total(_, _, _)
Total(k, f, j) ==
    IF j > Len(StandingsAt(k)) THEN 0
    ELSE (IF f \in DOMAIN StandingsAt(k)[j] THEN StandingsAt(k)[j][f] ELSE 0)
         + Total(k, f, j + 1)

\* n hundredths, written with two decimals
Hundredths(n) == Str(n \div 100) \o "." \o Pad2(n % 100)

Abs(x) == IF x < 0 THEN -x ELSE x

-----------------------------------------------------------------------------
(* C8: a fetch failure for any season of the list, at any position, aborts   *)
(* the comparison: the result is a single error text with none of the report *)
(* blocks computed for the earlier seasons.                                  *)
C8_FailureAborts ==
    (SeasonsCalled /\ FetchFailed) =>
        /\ pc = "done"
        /\ FailedAt(Len(responses))
        /\ Len(results) = Len(responses) - 1
        /\ Returned
        /\ StartsWith(Text, "Error comparing seasons: ")
        /\ ~Contains(Text, "Season Comparison")
        /\ \A k \in DOMAIN results : ~Contains(Text, results[k])

\* the second season fails after the first gave a block
C8_Witness ==
    /\ SeasonsCalled
    /\ Returned
    /\ Len(responses) = 2
    /\ FailedAt(2)
    /\ Len(results) = 1
    /\ StartsWith(Text, "Error comparing seasons: ")

-----------------------------------------------------------------------------
(* C9: in per-team mode there is exactly one block per element of the season *)
(* list, in input order and without deduplication; a season whose standings  *)
(* hold no team whose abbreviation equals teamAbbrev exactly gives a block   *)
(* with "No data found", and the other seasons still give full records.      *)
C9_BlockPerSeason ==
    (SeasonsCalled /\ TeamArg # "" /\ AllAnswered) =>
        LET seasons == arguments.seasons
        IN /\ Len(results) = Len(responses)
           /\ \A k \in DOMAIN results :
                /\ StartsWith(results[k], format_season(seasons[k]) \o " - " \o TeamArg \o ":")
                /\ ~Contains(results[k], "\n\n")
                /\ Contains(results[k], "No data found") <=> Named(k, TeamArg) = {}
                /\ Named(k, TeamArg) # {} =>
                     LET t == StandingsAt(k)[CHOOSE j \in Named(k, TeamArg) :
                                                \A i \in Named(k, TeamArg) : j <= i]
                     IN /\ Contains(results[k], "\n  Record: " \o Str(t.wins) \o "-"
                                       \o Str(t.losses) \o "-" \o Str(t.otLosses) \o "\n")
                        /\ Contains(results[k], "\n  Points: " \o Str(t.points) \o "\n")
                        /\ EndsWith(results[k], "\n  Goal Diff: " \o Str(t.goalDifferential))
           /\ pc = "done" =>
                /\ Len(results) = Len(seasons)
                /\ Returned
                /\ Text = "Season Comparison for " \o TeamArg \o ":\n\n" \o Join("\n\n", results)

\* the same season twice: the team absent the first time, present the second
C9_Witness ==
    /\ SeasonsCalled
    /\ Returned
    /\ arguments.seasons = <<"20232024", "20232024">>
    /\ TeamArg = "TOR"
    /\ AllAnswered
    /\ Len(StandingsAt(1)) = 2
    /\ results[1] = "2023-2024 - TOR: No data found"
    /\ Contains(results[2], "Record: 5-2-1")

-----------------------------------------------------------------------------
(* C10: in league-wide mode each season's block gives the sum of goals-for   *)
(* over all teams and the average goals per game, total goals divided by the *)
(* total of games-played (a missing field counting as 0), to two decimals;   *)
(* when the total of games is 0 the average is 0 and no error occurs.        *)
C10_LeagueAverages ==
    (SeasonsCalled /\ TeamArg = "" /\ AllAnswered) =>
        /\ raised = ""
        /\ Len(results) = Len(responses)
        /\ \A k \in DOMAIN results :
             LET goals == Total(k, "goalFor", 1)
                 games == Total(k, "gamesPlayed", 1)
                 lead == "Season " \o format_season(arguments.seasons[k]) \o ":\n"
                         \o "  Total teams: " \o Str(Len(StandingsAt(k))) \o "\n"
                         \o "  Total goals: " \o Str(goals) \o "\n"
                         \o "  Avg goals/game: "
             IN IF games = 0 THEN results[k] = lead \o "0.00"
                ELSE \E h \in {(100 * goals) \div games, (100 * goals) \div games + 1} :
                        /\ 2 * Abs(100 * goals - h * games) <= games
                        /\ results[k] = lead \o Hundredths(h)
        /\ pc = "done" =>
             Returned /\ Text = "Season Comparison:\n\n" \o Join("\n\n", results)

\* one season with no game played, one with 28 goals in 8 games
C10_Witness ==
    /\ SeasonsCalled
    /\ Returned
    /\ TeamArg = ""
    /\ AllAnswered
    /\ Len(results) = 2
    /\ StandingsAt(1) = <<TeamPartial, TeamLower>>
    /\ EndsWith(results[1], "Total goals: 3\n  Avg goals/game: 0.00")
    /\ EndsWith(results[2], "Total goals: 28\n  Avg goals/game: 3.50")

-----------------------------------------------------------------------------
(* Vocabulary of the standings properties *)

\* get_standings has returned on a fetched table
StandingsAnswered ==
    /\ Returned
    /\ name = "get_standings"
    /\ Len(responses) = 1
    /\ ~FailedAt(1)

\* the two texts are the same letter, in either case
SameIgnoringCase(x, y) ==
    x = y \/ {x, y} \in {{"A", "a"}, {"M", "m"}, {"E", "e"}, {"W", "w"}}

\* record t passes the filter given as argument key, which looks at field
Passes(t, key, field) ==
    key \in DOMAIN arguments =>
        field \in DOMAIN t /\ SameIgnoringCase(t[field], arguments[key])

Kept(t) == Passes(t, "division", "divisionAbbrev") /\ Passes(t, "conference", "conferenceAbbrev")

\* the rows of the records of the table from place j on that are kept
RECURSIVE KeptRows(_, _)
KeptRows(table, j) ==
    IF j > Len(table) THEN ""
    ELSE (IF Kept(table[j]) THEN format_standings_row(table[j]) ELSE "")
         \o KeptRows(table, j + 1)

-----------------------------------------------------------------------------
(* C11: get_standings returns rows for exactly the records that pass every   *)
(* supplied filter (division and conference, each compared ignoring case,    *)
(* both together as a logical AND), in their original order; with no filter  *)
(* every record is kept.                                                     *)
C11_FiltersConjoined ==
    StandingsAnswered =>
        Text = format_standings(<<>>) \o KeptRows(StandingsAt(1), 1)

\* both filters given: one record passes both, one only the conference filter
C11_Witness ==
    /\ StandingsAnswered
    /\ arguments = [division |-> "A", conference |-> "e"]
    /\ StandingsAt(1) = <<TeamTOR, TeamLower>>
    /\ Contains(Text, "\nTOR  | ")
    /\ ~Contains(Text, "\ntor  | ")

-----------------------------------------------------------------------------
(* The current-season rule, on any reading of the clock *)

Years == 1998..(1997 + MaxYears)

\* datetime.now(): first and last days of every month of the years
SeasonClockReadings ==
    {[year |-> y, month |-> m, day |-> d] : y \in Years, m \in 1..12, d \in {1, 28}}

InitSeason ==
    /\ CallIdle
    /\ ServerUp
    /\ now \in SeasonClockReadings
    /\ current_season = ""

\* a client method calls self._get_current_season()
CurrentSeason ==
    /\ current_season = ""
    /\ current_season' = get_current_season(now)
    /\ UNCHANGED <<now, callVars, serverVars>>

NextSeason == CurrentSeason

SeasonSpec == InitSeason /\ [][NextSeason]_vars

\* the value of a decimal digit
Digit(c) == CHOOSE d \in 0..9 : Str(d) = c

\* the number a string of decimal digits denotes
RECURSIVE Number(_)
Number(s) ==
    IF s = "" THEN 0
    ELSE 10 * Number(SubSeq(s, 1, Len(s) - 1)) + Digit(SubSeq(s, Len(s), Len(s)))

-----------------------------------------------------------------------------
(* C12: on a clock reading of year Y and month M the current-season rule     *)
(* gives "{Y}{Y+1}" when M >= 10 and "{Y-1}{Y}" when M < 10; the identifier  *)
(* has 8 digits and its end year is its start year plus one.                 *)
C12_SeasonRule ==
    current_season # "" =>
        /\ now.month >= 10 => current_season = Str(now.year) \o Str(now.year + 1)
        /\ now.month < 10 => current_season = Str(now.year - 1) \o Str(now.year)
        /\ Len(current_season) = 8
        /\ Number(SubSeq(current_season, 5, 8)) = Number(SubSeq(current_season, 1, 4)) + 1
        /\ Number(SubSeq(current_season, 1, 4)) = now.year - (IF now.month < 10 THEN 1 ELSE 0)

\* the first day of October of 1999
C12_Witness ==
    /\ now = [year |-> 1999, month |-> 10, day |-> 1]
    /\ current_season = "19992000"

-----------------------------------------------------------------------------
(* Vocabulary of the fetch properties *)

\* the client operations the invocation calls when none of them fails
Operations == IF name = "compare_seasons" THEN Len(arguments.seasons) ELSE 1

\* the invocation is of a catalogued tool and has all its required arguments
WellCalled == name \in CataloguedTools /\ MissingRequired = {}

\* what the failure of the k-th request carries: the cause or the status
Cause(k) ==
    IF responses[k].kind = "error" THEN responses[k].exc ELSE Str(responses[k].status)

-----------------------------------------------------------------------------
(* C13: a client operation sends exactly one GET per call and never retries: *)
(* after a transport error or a non-2xx answer no further request is sent,   *)
(* and the failure reaches the caller, whose error text carries it.          *)
C13_OneGetNoRetry ==
    /\ Len(requests) = Len(responses) + (IF pc = "await" THEN 1 ELSE 0)
    /\ WellCalled => Len(requests) <= Operations
    /\ (WellCalled /\ pc = "done" /\ AllAnswered) => Len(requests) = Operations
    /\ \A k \in DOMAIN responses :
         FailedAt(k) =>
            /\ k = Len(requests)
            /\ pc = "done"
            /\ Returned
            /\ StartsWith(Text, "Error ")
            /\ Contains(Text, Cause(k))

\* the first of two season fetches is answered 500: one request, no second
C13_Witness ==
    /\ Returned
    /\ SeasonsCalled
    /\ Len(arguments.seasons) = 2
    /\ Len(requests) = 1
    /\ responses = <<Answer(500, NoRecord)>>
    /\ Contains(Text, "500")

-----------------------------------------------------------------------------
(* The process: import, main, concurrent invocations of call_tool, exit *)

\* a GET that has not come back
Pending == [kind |-> "pending"]

\* the frame of an invocation that has not been called
NoFrame ==
    [pc |-> "idle", name |-> "", arguments |-> NoRecord, at |-> NoRecord, sent |-> 0,
     results |-> <<>>, ret |-> <<>>, raised |-> ""]

\* the tool calls the concurrent invocations are drawn from
ServerCalls ==
    {<<"get_team_streak", [teamAbbrev |-> "TOR"]>>,
     <<"compare_seasons", [seasons |-> <<"20232024", "2024">>]>>}

\* what client.get can come back with, for a request of tool n
ServerOutcomes(n) ==
    {Failed("All connection attempts failed"), Answer(404, NoRecord)}
    \cup {Answer(200, b) :
            b \in IF n = "compare_seasons"
                  THEN {[standings |-> <<TeamTOR>>], [standings |-> <<TeamPartial, TeamLower>>]}
                  ELSE {[games |-> <<Played("2024-10-05", <<"TOR", "MTL">>, "OFF", <<3, 2>>)>>],
                        [games |-> <<Played("2024-10-12", <<"MTL", "TOR">>, "FINAL", <<3, 2>>)>>]}}

\* a request for a URL that is already in flight is not sent again
client_get_shared(w, i, k, url) ==
    IF \E r \in w : r.url = url /\ r.outcome = Pending THEN w
    ELSE w \cup {[task |-> i, seq |-> k, url |-> url, outcome |-> Pending]}

\* self.client.get(url), the k-th GET of invocation i
client_get(w, i, k, url) ==
    w \cup {[task |-> i, seq |-> k, url |-> url, outcome |-> Pending]}

InitServer ==
    /\ CallIdle
    /\ SeasonIdle
    /\ process = "start"
    /\ http = NoClient
    /\ tasks = [i \in 1..MaxTasks |-> NoFrame]
    /\ wire = {}

\* "from .server import main" runs the module: client = NHLAPIClient()
Import ==
    /\ process = "start"
    /\ process' = "loaded"
    /\ http' = NHLAPIClient(http)
    /\ UNCHANGED <<tasks, wire, callVars, seasonVars>>

\* asyncio.run(main()): stdio_server is entered and app.run serves
Main ==
    /\ process = "loaded"
    /\ process' = "serving"
    /\ UNCHANGED <<http, tasks, wire, callVars, seasonVars>>

\* frame f after call_tool has run to step: suspended in its next GET, or left
FrameAfter(f, step) ==
    IF step.kind = "await" THEN [f EXCEPT !.pc = "await", !.sent = @ + 1]
    ELSE [f EXCEPT !.pc = "done",
                   !.ret = IF step.kind = "return" THEN step.value ELSE <<>>,
                   !.raised = IF step.kind = "raise" THEN step.exc ELSE ""]

\* app.run starts invocation i of call_tool, which runs to its first await
TaskCall(i, n, a, t) ==
    /\ process = "serving"
    /\ tasks[i].pc = "idle"
    /\ LET step == call_tool_except(n, call_tool_begin(n, a, t))
           f == [NoFrame EXCEPT !.name = n, !.arguments = a, !.at = t]
       IN /\ tasks' = [tasks EXCEPT ![i] = FrameAfter(f, step)]
          /\ wire' = IF step.kind = "await" THEN client_get(wire, i, 1, step.url) ELSE wire
    /\ UNCHANGED <<process, http, callVars, seasonVars>>

\* the GET r comes back with outcome o and its invocation runs to its next await
TaskResume(r, o) ==
    LET i == r.task
        f == tasks[i]
        fetched == fetch_json(r.url, o)
        step == call_tool_except(f.name,
                    call_tool_resume(f.name, f.arguments, r.seq, f.results, fetched))
        g == [f EXCEPT !.results =
                 IF f.name = "compare_seasons"
                 THEN SeasonsResults(f.arguments.seasons, Get(f.arguments, "teamAbbrev", ""),
                                     r.seq, f.results, fetched)
                 ELSE f.results]
        answered == (wire \ {r}) \cup {[r EXCEPT !.outcome = o]}
    IN /\ tasks' = [tasks EXCEPT ![i] = FrameAfter(g, step)]
       /\ wire' = IF step.kind = "await" THEN client_get(answered, i, r.seq + 1, step.url)
                  ELSE answered
       /\ UNCHANGED <<process, http, callVars, seasonVars>>

TaskRespond ==
    /\ process = "serving"
    /\ \E r \in wire :
         /\ r.outcome = Pending
         /\ tasks[r.task].pc = "await"
         /\ \E o \in ServerOutcomes(tasks[r.task].name) : TaskResume(r, o)

\* stdin ends: app.run returns, main returns, asyncio.run cancels what is left
Shutdown ==
    /\ process = "serving"
    /\ process' = "exited"
    /\ UNCHANGED <<http, tasks, wire, callVars, seasonVars>>

NextServer ==
    \/ Import
    \/ Main
    \/ \E i \in 1..MaxTasks : \E c \in ServerCalls : \E t \in ClockReadings :
          TaskCall(i, c[1], c[2], t)
    \/ TaskRespond
    \/ Shutdown

ServerSpec == InitServer /\ [][NextServer]_vars

-----------------------------------------------------------------------------
(* C14: the shared HTTP client is opened exactly once, at process start; no  *)
(* tool invocation opens, closes or replaces it; it is closed exactly once,  *)
(* at shutdown; no request is in flight on a closed client.                  *)
C14_ClientLifecycle ==
    /\ process = "start" => http = NoClient
    /\ process \in {"loaded", "serving"} =>
          http.state = "open" /\ http.opens = 1 /\ http.closes = 0
    /\ process = "exited" =>
          http.state = "closed" /\ http.opens = 1 /\ http.closes = 1
    /\ (process # "exited" /\ wire # {}) => http.state = "open"

-----------------------------------------------------------------------------
(* Vocabulary of the concurrency properties *)

\* the GETs invocation i has sent on the shared client
Entries(i) == {r \in wire : r.task = i}

\* the k-th GET of invocation i
Entry(i, k) == CHOOSE r \in Entries(i) : r.seq = k

\* the outcomes invocation i has received, in the order of its requests
Received(i) ==
    [k \in 1..Cardinality({r \in Entries(i) : r.outcome # Pending}) |-> Entry(i, k).outcome]

\* call_tool on its own, from k outcomes received on: it goes on while it is
\* suspended in a GET and an outcome of rs is left
RECURSIVE RunFrom(_, _, _, _, _)
RunFrom(n, a, rs, k, st) ==
    IF st.step.kind # "await" \/ k >= Len(rs) THEN st
    ELSE LET fetched == fetch_json(st.step.url, rs[k + 1])
             step == call_tool_except(n, call_tool_resume(n, a, k + 1, st.results, fetched))
             blocks == IF n = "compare_seasons"
                       THEN SeasonsResults(a.seasons, Get(a, "teamAbbrev", ""), k + 1,
                                           st.results, fetched)
                       ELSE st.results
         IN RunFrom(n, a, rs, k + 1,
                    [requests |-> IF step.kind = "await" THEN Append(st.requests, step.url)
                                  ELSE st.requests,
                     results |-> blocks, step |-> step])

\* one invocation of tool n with arguments a at clock reading t, alone in the
\* process, given the outcomes rs: the URLs it requests and where it stands
RunAlone(n, a, t, rs) ==
    LET step == call_tool_except(n, call_tool_begin(n, a, t))
    IN RunFrom(n, a, rs, 0,
               [requests |-> IF step.kind = "await" THEN <<step.url>> ELSE <<>>,
                results |-> <<>>, step |-> step])

-----------------------------------------------------------------------------
(* C16: concurrent invocations do not interfere.  Under every interleaving   *)
(* of their await points each invocation sends its own GETs (none is shared  *)
(* with, or left to, another invocation asking for the same URL), and what   *)
(* it requests and returns is what it would alone, given its own arguments   *)
(* and the outcomes of its own requests.                                     *)
C16_NoInterference ==
    \A i \in DOMAIN tasks :
        LET f == tasks[i]
            sent == Cardinality(Entries(i))
        IN f.pc # "idle" =>
             /\ {r.seq : r \in Entries(i)} = 1..sent
             /\ sent = f.sent
             /\ {r.seq : r \in {e \in Entries(i) : e.outcome = Pending}}
                    = IF f.pc = "await" THEN {sent} ELSE {}
             /\ LET alone == RunAlone(f.name, f.arguments, f.at, Received(i))
                IN /\ [k \in 1..sent |-> Entry(i, k).url] = alone.requests
                   /\ f.results = alone.results
                   /\ f.pc = "await" <=> alone.step.kind = "await"
                   /\ f.pc = "done" => alone.step = Return(f.ret) /\ f.raised = ""

\* two streak requests for the same team are suspended at once, each in its
\* own GET of the same URL
C16_Witness ==
    /\ MaxTasks >= 2
    /\ tasks[1].pc = "await" /\ tasks[1].name = "get_team_streak"
    /\ tasks[2].pc = "await" /\ tasks[2].name = "get_team_streak"
    /\ \E r1 \in Entries(1) : \E r2 \in Entries(2) :
          r1.url = r2.url /\ r1.outcome = Pending /\ r2.outcome = Pending

-----------------------------------------------------------------------------
(* C15: inside one helper invocation at most one request is outstanding.     *)
(* compare_seasons fetches the standings of its seasons in list order, the   *)
(* next only once the one before has been answered, and none after a failed  *)
(* one; analyze_streak and compare_teams_head_to_head send exactly one       *)
(* request, compare_teams_head_to_head for team1's schedule and never for    *)
(* team2's.                                                                  *)
C15_OneFetchAtATime ==
    /\ Len(responses) <= Len(requests)
    /\ Len(requests) <= Len(responses) + 1
    /\ SeasonsCalled =>
          /\ Len(requests) <= Len(arguments.seasons)
          /\ \A k \in DOMAIN requests :
                requests[k] = NHL_API_BASE \o "/standings/" \o arguments.seasons[k]
          /\ \A k \in DOMAIN responses : FailedAt(k) => k = Len(requests)
          /\ (pc = "done" /\ AllAnswered) => Len(requests) = Len(arguments.seasons)
    /\ (name \in {"get_team_streak", "compare_teams"} /\ MissingRequired = {}) =>
          LET team == IF name = "compare_teams" THEN arguments.team1
                      ELSE arguments.teamAbbrev
          IN /\ Len(requests) = 1
             /\ StartsWith(requests[1],
                           NHL_API_BASE \o "/club-schedule-season/" \o team \o "/")
             /\ name = "compare_teams" => ~Contains(requests[1], arguments.team2)

\* the second season is being fetched, the first having been answered
C15_Witness ==
    /\ SeasonsCalled
    /\ pc = "await"
    /\ arguments.seasons = <<"2024", "20232024">>
    /\ requests = <<NHL_API_BASE \o "/standings/2024", NHL_API_BASE \o "/standings/20232024">>
    /\ Len(responses) = 1
    /\ ~FailedAt(1)

-----------------------------------------------------------------------------
(* C17: in compare_teams_head_to_head the two win counters add up to the     *)
(* number of completed (OFF or FINAL) matchups: every completed matchup      *)
(* counts for exactly one team, a completed game with equal scores for       *)
(* team2, and an upcoming or in-progress matchup counts for neither.         *)
C17_CountersAddUp ==
    TeamsAnswered =>
        LET team1 == arguments.team1
            team2 == arguments.team2
            m == Matchups(team1, team2)
            completed == Cardinality(CompletedIn(m))
            ties == {i \in CompletedIn(m) : Goals(m[i], team1, TRUE) = Goals(m[i], team1, FALSE)}
        IN m # <<>> =>
             /\ \E w1 \in 0..(completed - Cardinality(ties)) :
                   StartsWith(Text, "Head-to-Head: " \o team1 \o " vs " \o team2 \o "\n\n"
                                    \o "Season Series: " \o team1 \o " " \o Str(w1) \o "-"
                                    \o Str(completed - w1) \o " " \o team2 \o "\n")
             /\ \A i \in ties :
                   Contains(Text, m[i].gameDate \o ": " \o team1 \o " "
                                  \o Str(Goals(m[i], team1, TRUE)) \o ", " \o team2 \o " "
                                  \o Str(Goals(m[i], team1, FALSE)) \o " - " \o team2 \o " WIN")

\* a completed 2-2 game and a game in progress: the series stands 0-1
C17_Witness ==
    /\ TeamsAnswered
    /\ FetchedGames = <<Played("2024-10-05", <<"TOR", "MTL">>, "OFF", <<2, 2>>),
                        Played("2024-10-12", <<"MTL", "TOR">>, "LIVE", <<1, 0>>)>>
    /\ Contains(Text, "Season Series: TOR 0-1 MTL\n")
    /\ Contains(Text, "2024-10-05: TOR 2, MTL 2 - MTL WIN")
    /\ Contains(Text, "IN PROGRESS")

====
